---- MODULE Spec2Model ----
(***************************************************************************)
(* The database layer of headlights (src/src/db/db.go).                    *)
(*                                                                         *)
(* Spec: the archive-job queue, QueueArchiveJob and ProcessArchiveJob      *)
(* over the archive_jobs table.  The later sections add the catalog        *)
(* (categories, folders, real folders and files), each under a             *)
(* specification of its own that leaves the queue alone.                   *)
(*                                                                         *)
(* Time is a natural number of clock ticks.  Go's zero time.Time (the     *)
(* value of a time field nobody assigned) is tick 0; the wall clock reads  *)
(* 1 or more.  Text columns are sequences of tokens, so that joining a     *)
(* list with a delimiter is an operation and not the identity.             *)
(*                                                                         *)
(* The callback of ProcessArchiveJob is an input: its boolean result, the  *)
(* time it takes, and what it writes to the *ArchiveJob it is handed,      *)
(* which the function saves afterwards.  Storage failures (a non-nil       *)
(* op.Operation.Err()) are not modelled here.                              *)
(***************************************************************************)
EXTENDS Integers, Sequences, FiniteSets, TLC

VARIABLES
    jobs,   \* table archive_jobs: row i is the row whose id is i
    now,    \* the wall clock, what time.Now() returns
    done,   \* ids a callback has reported success (true) for
    writes, \* how many callbacks so far have written to the job they were handed
    last,   \* what the most recent call was given, saw and did
    store,  \* the catalog tables: categories, folders, real_folders
    obs,    \* what the most recent catalog call was given, saw and did
    procs   \* callers in the middle of a call made of several statements

vars == <<jobs, now, done, writes, last>>
catVars == <<store, obs, procs>>
allVars == <<jobs, now, done, writes, last, store, obs, procs>>

----------------------------------------------------------------------------
(* Bounds of the model *)

MaxJobs == 2     \* rows in archive_jobs
MaxTime == 3     \* last reading of the clock
MaxWrites == 1   \* callbacks that write to the job object they are handed

(* Program constants *)

Hour == 1        \* time.Hour, in clock ticks
ZeroTime == 0    \* time.Time{}: the value of a time field left unset

RS == "\\x1E"    \* the record separator that joins file paths
Comma == ","     \* the delimiter that joins addresses

----------------------------------------------------------------------------
(* Inputs: the address lists and file lists a caller may pass *)

Ann == [Name |-> "", Address |-> "ann@x"]
Bob == [Name |-> "Bob", Address |-> "bob@x"]
FileA == [ID |-> 1, FullPath |-> "/mnt/vol/a.tif", PublicPath |-> "a.tif"]
FileB == [ID |-> 2, FullPath |-> "/mnt/vol/b.tif", PublicPath |-> "b.tif"]

AddrLists == { <<>>, <<Ann, Bob>> }
FileLists == { <<>>, <<FileA, FileB>> }

(* The callback may take time: the clock read after it returns is this much
   later than the clock read by the select. *)
CbTimes == {0, 1}

----------------------------------------------------------------------------
(* Pure helpers *)

RECURSIVE Join(_, _)
(* strings.Join(parts, sep): parts is a sequence of token sequences *)
Join(parts, sep) ==
    IF parts = <<>> THEN <<>>
    ELSE IF Len(parts) = 1 THEN parts[1]
    ELSE parts[1] \o <<sep>> \o Join(Tail(parts), sep)

(* mail.Address.String(): <addr>, preceded by the quoted name when there is one *)
AddressString(a) ==
    IF a.Name = "" THEN <<"<", a.Address, ">">>
    ELSE <<"\"", a.Name, "\"", " ", "<", a.Address, ">">>

FilePathsPublic(files) == [i \in 1..Len(files) |-> <<files[i].PublicPath>>]

(* the loop over files collecting f.FullPath *)
FilePaths(files) == [i \in 1..Len(files) |-> <<files[i].FullPath>>]

(* the loop over addrs collecting addr.String() *)
Emails(addrs) == [i \in 1..Len(addrs) |-> AddressString(addrs[i])]

QueueErrorFilesOnly(addrs, files) == Len(files) = 0

(* the two early returns of QueueArchiveJob *)
QueueError(addrs, files) == Len(files) = 0 \/ Len(addrs) = 0

----------------------------------------------------------------------------
(* The table *)

(* OperationTable.Save: INSERT when the object's primary key is zero (the row
   gets the next id), otherwise UPDATE ... WHERE id = the object's ID *)
Save(tbl, obj) ==
    IF obj.ID = 0 THEN Append(tbl, [obj EXCEPT !.ID = Len(tbl) + 1])
    ELSE IF obj.ID \in DOMAIN tbl THEN [tbl EXCEPT ![obj.ID] = obj]
    ELSE tbl

NewArchiveJobDueNow(addrs, files, t) ==
    [ ID                 |-> 0,
      CreatedAt          |-> t,
      NextAttemptAt      |-> t,
      NotificationEmails |-> Join(Emails(addrs), Comma),
      Files              |-> Join(FilePaths(files), RS),
      Processed          |-> FALSE ]

(* the struct literal of QueueArchiveJob: ID, NextAttemptAt and Processed are
   not assigned and keep Go's zero values *)
NewArchiveJob(addrs, files, t) ==
    [ ID                 |-> 0,
      CreatedAt          |-> t,
      NextAttemptAt      |-> ZeroTime,
      NotificationEmails |-> Join(Emails(addrs), Comma),
      Files              |-> Join(FilePaths(files), RS),
      Processed          |-> FALSE ]

WhereDueOrLate(tbl, t) ==
    { i \in DOMAIN tbl : tbl[i].NextAttemptAt <= t /\ tbl[i].Processed = FALSE }

WhereUnprocessed(tbl, t) ==
    { i \in DOMAIN tbl : tbl[i].Processed = FALSE }

WhereAnyProcessed(tbl, t) ==
    { i \in DOMAIN tbl : tbl[i].NextAttemptAt < t }

(* WHERE next_attempt_at < ? AND processed = ?  with (time.Now(), false) *)
Where(tbl, t) ==
    { i \in DOMAIN tbl : tbl[i].NextAttemptAt < t /\ tbl[i].Processed = FALSE }

FirstNewest(tbl, t) ==
    { i \in Where(tbl, t) :
        \A k \in Where(tbl, t) : tbl[i].CreatedAt >= tbl[k].CreatedAt }

(* ORDER BY created_at ASC LIMIT 1: the rows First() may load.  SQL leaves
   the order of rows with equal created_at open. *)
First(tbl, t) ==
    { i \in Where(tbl, t) :
        \A k \in Where(tbl, t) : tbl[i].CreatedAt <= tbl[k].CreatedAt }

----------------------------------------------------------------------------
(* The callback: it returns a boolean, and it holds a pointer to the loaded
   job, which it may write to before it returns. *)

Tampered == <<"tampered">>

(* The writes a callback may make to the object it was handed, numbered:
   none, the two text fields, CreatedAt, NextAttemptAt, Processed, and the ID
   (to zero or to the id of a row; n is the number of rows). *)
WriteKinds(n) == 0..(5 + n)

CallbackWrite(j, w) ==
    CASE w = 0 -> j
      [] w = 1 -> [j EXCEPT !.Files = Tampered, !.NotificationEmails = Tampered]
      [] w = 2 -> [j EXCEPT !.CreatedAt = ZeroTime]
      [] w = 3 -> [j EXCEPT !.NextAttemptAt = ZeroTime]
      [] w = 4 -> [j EXCEPT !.Processed = TRUE]
      [] OTHER -> [j EXCEPT !.ID = w - 5]

AfterCallbackUnmarked(obj, ret, t) ==
    IF ret THEN obj ELSE [obj EXCEPT !.NextAttemptAt = t + Hour]

AfterCallbackFromPrevious(obj, ret, t) ==
    IF ret THEN [obj EXCEPT !.Processed = TRUE]
    ELSE [obj EXCEPT !.NextAttemptAt = obj.NextAttemptAt + Hour]

(* if cb(j) { j.Processed = true } else { j.NextAttemptAt = time.Now().Add(time.Hour) }
   with t the clock read after the callback returned *)
AfterCallback(obj, ret, t) ==
    IF ret THEN [obj EXCEPT !.Processed = TRUE]
    ELSE [obj EXCEPT !.NextAttemptAt = t + Hour]

----------------------------------------------------------------------------
(* The record of the most recent call *)

NoCall ==
    [ op |-> "none", at |-> 0, at1 |-> 0, pre |-> <<>>, addrs |-> <<>>,
      files |-> <<>>, err |-> FALSE, calls |-> 0, handed |-> 0, ret |-> FALSE,
      obj |-> <<>>, again |-> FALSE, queued |-> 0 ]

(* no catalog call has been made yet *)
NoObs ==
    [ op |-> "none", call |-> <<>>, pre |-> <<>>, ret |-> 0, err |-> "",
      after |-> <<>>, again |-> <<>> ]

(* the tables after the migrations, before any call *)
Init ==
    /\ jobs = <<>>
    /\ now = 1
    /\ done = {}
    /\ writes = 0
    /\ last = NoCall
    /\ store = [categories |-> <<>>, folders |-> <<>>, realFolders |-> <<>>]
    /\ obs = NoObs
    /\ procs = <<>>

(* the clock advances between calls *)
Tick ==
    /\ now < MaxTime
    /\ now' = now + 1
    /\ UNCHANGED <<jobs, done, writes, last>>
    /\ UNCHANGED catVars

QueueArchiveJob ==
    /\ UNCHANGED catVars
    /\ \E addrs \in AddrLists, files \in FileLists :
           LET rec == [NoCall EXCEPT !.op = "queue", !.at = now, !.at1 = now,
                           !.pre = jobs, !.addrs = addrs, !.files = files]
           IN  IF QueueError(addrs, files)
               THEN /\ last' = [rec EXCEPT !.err = TRUE]
                    /\ UNCHANGED <<jobs, now, done, writes>>
               ELSE /\ Len(jobs) < MaxJobs
                    /\ jobs' = Save(jobs, NewArchiveJob(addrs, files, now))
                    /\ last' = [rec EXCEPT !.queued = Len(jobs) + 1]
                    /\ UNCHANGED <<now, done, writes>>

ProcessArchiveJob ==
    /\ UNCHANGED catVars
    /\ LET rec == [NoCall EXCEPT !.op = "process", !.at = now, !.at1 = now,
                       !.pre = jobs,
                       !.queued = IF last.op = "queue" THEN last.queued ELSE 0]
       IN  IF First(jobs, now) = {}
           THEN /\ last' = rec
                /\ UNCHANGED <<jobs, now, done, writes>>
           ELSE \E w \in WriteKinds(Len(jobs)), i \in First(jobs, now) :
                \E d \in CbTimes, ret \in BOOLEAN :
                   LET obj == CallbackWrite(jobs[i], w)
                       j == AfterCallback(obj, ret, now + d)
                   IN  /\ now + d <= MaxTime
                       /\ obj # jobs[i] => writes < MaxWrites
                       /\ writes' = IF obj # jobs[i] THEN writes + 1 ELSE writes
                       /\ Len(Save(jobs, j)) <= MaxJobs
                       /\ jobs' = Save(jobs, j)
                       /\ now' = now + d
                       /\ done' = IF ret THEN done \cup {i} ELSE done
                       /\ last' = [rec EXCEPT !.at1 = now + d, !.calls = 1,
                                      !.handed = i, !.ret = ret, !.obj = obj,
                                      !.again = (i \in done)]

Next == Tick \/ QueueArchiveJob \/ ProcessArchiveJob

Spec == Init /\ [][Next]_allVars

----------------------------------------------------------------------------
(* Vocabulary of the properties.  A row is due at time t when it is not
   processed and its retry time has passed (next_attempt_at before t). *)

Due(row, t) == row.Processed = FALSE /\ row.NextAttemptAt < t

Processing == last.op = "process"
Claimed == Processing /\ last.calls = 1
Queueing == last.op = "queue"

RECURSIVE IsJoinOf(_, _, _)
(* text is the parts in order, with one sep between neighbours *)
IsJoinOf(text, parts, sep) ==
    IF Len(parts) = 0 THEN text = <<>>
    ELSE IF Len(parts) = 1 THEN text = parts[1]
    ELSE /\ Len(text) > Len(parts[1])
         /\ SubSeq(text, 1, Len(parts[1])) = parts[1]
         /\ text[Len(parts[1]) + 1] = sep
         /\ IsJoinOf(SubSeq(text, Len(parts[1]) + 2, Len(text)), Tail(parts), sep)

----------------------------------------------------------------------------
(* C1: a ProcessArchiveJob call runs the callback at most once, and the job it
   hands over was, when the call selected it, unprocessed with its retry time
   passed, and no other such job had a strictly older createdAt. *)
C1_OldestDueJobOnce ==
    Processing =>
        /\ last.calls \in {0, 1}
        /\ last.calls = 1 =>
              /\ last.handed \in DOMAIN last.pre
              /\ Due(last.pre[last.handed], last.at)
              /\ \A k \in DOMAIN last.pre :
                    Due(last.pre[k], last.at) =>
                        last.pre[last.handed].CreatedAt <= last.pre[k].CreatedAt

(* two jobs were due and the call took the older one *)
C1_Witness ==
    /\ Claimed
    /\ \E k \in DOMAIN last.pre :
          /\ Due(last.pre[k], last.at)
          /\ last.pre[k].CreatedAt > last.pre[last.handed].CreatedAt

(* C2: once a callback has returned true for job A, A's row is kept with
   processed = true from then on, and no later call hands A to a callback. *)
C2_CompletedIsTerminal ==
    /\ \A a \in done : a \in DOMAIN jobs /\ jobs[a].Processed = TRUE
    /\ Claimed => ~last.again

(* C3 as stated: after a callback returned false for a job whose nextAttemptAt
   was t, the job's row has nextAttemptAt = t + one hour and processed = false. *)
C3_BackoffFromPrevious ==
    (Claimed /\ ~last.ret) =>
        /\ jobs[last.handed].NextAttemptAt =
              last.pre[last.handed].NextAttemptAt + Hour
        /\ jobs[last.handed].Processed = FALSE

(* the row a Save of the object the callback left behind writes *)
SavedRow == IF last.obj.ID = 0 THEN Len(jobs) ELSE last.obj.ID

(* C3 as amended: after a callback returned false, the row that was saved has
   nextAttemptAt = (the clock read after the callback returned) + one hour and
   the processed flag the job object carried, which ProcessArchiveJob does not
   write; for a callback that left the object as handed, that row is the
   claimed job's and its processed flag is false. *)
C3_BackoffFromNow ==
    (Claimed /\ ~last.ret) =>
        /\ SavedRow \in DOMAIN jobs
        /\ jobs[SavedRow].NextAttemptAt = last.at1 + Hour
        /\ jobs[SavedRow].Processed = last.obj.Processed
        /\ last.obj = last.pre[last.handed] =>
              /\ SavedRow = last.handed
              /\ jobs[last.handed].Processed = FALSE

(* a callback returned false for a job that had failed before and was claimed
   again after its retry time *)
C3_Witness ==
    /\ Claimed /\ ~last.ret
    /\ last.obj = last.pre[last.handed]
    /\ last.pre[last.handed].NextAttemptAt # ZeroTime
    /\ jobs[last.handed].NextAttemptAt > last.pre[last.handed].NextAttemptAt + Hour

(* C4 as stated: an unprocessed job with nextAttemptAt = T is not handed over
   by a call made before T, and is handed over by a call made at T or later
   when no other job that is Ready (nextAttemptAt <= now, unprocessed) is
   older.  Jobs of equal createdAt are counted as older here, which only
   narrows the cases the statement covers. *)
C4_DueAtOrAfter ==
    Processing =>
        \A i \in DOMAIN last.pre :
            last.pre[i].Processed = FALSE =>
                /\ last.at < last.pre[i].NextAttemptAt => last.handed # i
                /\ ( /\ last.at >= last.pre[i].NextAttemptAt
                     /\ \A k \in DOMAIN last.pre \ {i} :
                           ( /\ last.pre[k].Processed = FALSE
                             /\ last.pre[k].NextAttemptAt <= last.at )
                           => last.pre[k].CreatedAt > last.pre[i].CreatedAt )
                   => last.handed = i

(* C4 as amended: an unprocessed job with nextAttemptAt = T is not handed over
   by a call made at T or before, and is handed over by a call made strictly
   after T when no other job whose retry time has passed is as old or older. *)
C4_DueStrictlyAfter ==
    Processing =>
        \A i \in DOMAIN last.pre :
            last.pre[i].Processed = FALSE =>
                /\ last.at <= last.pre[i].NextAttemptAt => last.handed # i
                /\ ( /\ last.at > last.pre[i].NextAttemptAt
                     /\ \A k \in DOMAIN last.pre \ {i} :
                           Due(last.pre[k], last.at)
                           => last.pre[k].CreatedAt > last.pre[i].CreatedAt )
                   => last.handed = i

(* a job that failed earlier is handed over again once its retry time has passed *)
C4_Witness ==
    /\ Claimed
    /\ last.pre[last.handed].NextAttemptAt # ZeroTime
    /\ last.at > last.pre[last.handed].NextAttemptAt

(* C5: when the call before a ProcessArchiveJob call was a successful
   QueueArchiveJob of job A, and no other job in the table is due, the call
   hands A to the callback. *)
C5_FreshJobIsEligible ==
    ( /\ Processing
      /\ last.queued # 0
      /\ \A k \in DOMAIN last.pre \ {last.queued} : ~Due(last.pre[k], last.at) )
    => (last.calls = 1 /\ last.handed = last.queued)

(* a job queued behind a job that is not due is handed over by the next call,
   made at the very clock reading of the enqueue *)
C5_Witness ==
    /\ Claimed
    /\ last.queued = last.handed
    /\ Len(last.pre) > 1
    /\ last.pre[last.queued].CreatedAt = last.at

(* C6: QueueArchiveJob with an empty address list or an empty file list
   returns an error and leaves the table as it was. *)
C6_EmptyListsRejected ==
    (Queueing /\ (last.addrs = <<>> \/ last.files = <<>>)) =>
        (last.err /\ jobs = last.pre)

(* addresses were missing, files were not, and the table held a job *)
C6_Witness ==
    /\ Queueing /\ last.err
    /\ last.addrs = <<>> /\ last.files # <<>>
    /\ jobs # <<>>

(* what a successful QueueArchiveJob adds besides nextAttemptAt *)
QueuedOneJob ==
    /\ Len(jobs) = Len(last.pre) + 1
    /\ SubSeq(jobs, 1, Len(last.pre)) = last.pre
    /\ jobs[Len(jobs)].CreatedAt = last.at
    /\ jobs[Len(jobs)].Processed = FALSE
    /\ IsJoinOf(jobs[Len(jobs)].Files,
                [i \in 1..Len(last.files) |-> <<last.files[i].FullPath>>], RS)
    /\ IsJoinOf(jobs[Len(jobs)].NotificationEmails,
                [i \in 1..Len(last.addrs) |-> AddressString(last.addrs[i])], Comma)

(* C7 as stated: a successful QueueArchiveJob at time now adds exactly one job,
   with createdAt = now, nextAttemptAt = now, processed = false, the files'
   full paths in the order given and the addresses in the order given. *)
C7_QueuedDueNow ==
    (Queueing /\ ~last.err) =>
        (QueuedOneJob /\ jobs[Len(jobs)].NextAttemptAt = last.at)

(* C7 as amended: the same, except that nextAttemptAt is the zero time, the
   value of a time field that was never set, earlier than every clock reading. *)
C7_QueuedAtZeroTime ==
    (Queueing /\ ~last.err) =>
        /\ QueuedOneJob
        /\ jobs[Len(jobs)].NextAttemptAt = ZeroTime
        /\ ZeroTime < last.at

(* a second job was queued with two files and two addresses *)
C7_Witness ==
    /\ Queueing /\ ~last.err
    /\ Len(jobs) = 2
    /\ Len(last.files) = 2 /\ Len(last.addrs) = 2

(* C8: when no job is due (none stored, all processed, or every unprocessed
   job's retry time not yet passed), ProcessArchiveJob does not run the
   callback, returns no error and leaves the table as it was. *)
C8_NothingDueIsNoOp ==
    (Processing /\ \A k \in DOMAIN last.pre : ~Due(last.pre[k], last.at)) =>
        (last.calls = 0 /\ ~last.err /\ jobs = last.pre)

(* a call found one job processed and another still waiting for its retry *)
C8_Witness ==
    /\ Processing /\ last.calls = 0
    /\ \E a, b \in DOMAIN last.pre :
          /\ last.pre[a].Processed = TRUE
          /\ last.pre[b].Processed = FALSE
          /\ last.pre[b].NextAttemptAt >= last.at

(* C9: no call ever lowers a stored job's nextAttemptAt. *)
C9_NextAttemptNeverDecreases ==
    (Queueing \/ Processing) =>
        \A i \in DOMAIN last.pre :
            /\ i \in DOMAIN jobs
            /\ jobs[i].NextAttemptAt >= last.pre[i].NextAttemptAt

(* C10: a ProcessArchiveJob call adds and removes no row, leaves createdAt,
   files and notificationEmails of every job as they were, changes no job but
   the claimed one, and of the claimed one only processed (when the callback
   returned true) or nextAttemptAt (when it returned false). *)
C10_ProcessFrame ==
    Processing =>
        /\ Len(jobs) = Len(last.pre)
        /\ \A i \in DOMAIN last.pre :
              /\ jobs[i].CreatedAt = last.pre[i].CreatedAt
              /\ jobs[i].Files = last.pre[i].Files
              /\ jobs[i].NotificationEmails = last.pre[i].NotificationEmails
              /\ (last.calls = 0 \/ i # last.handed) => jobs[i] = last.pre[i]
              /\ (Claimed /\ i = last.handed /\ last.ret) =>
                    jobs[i].NextAttemptAt = last.pre[i].NextAttemptAt
              /\ (Claimed /\ i = last.handed /\ ~last.ret) =>
                    jobs[i].Processed = last.pre[i].Processed

----------------------------------------------------------------------------
(***************************************************************************)
(* The catalog: FindOrCreateCategory, FindOrCreateFolder,                  *)
(* FindOrCreateRealFolder and InTransaction.                               *)
(*                                                                         *)
(* A table is the sequence of its rows, row i having id i.  A path is a    *)
(* sequence of tokens, Sep being os.PathSeparator.  A *Folder argument is  *)
(* nil, or an object of which the code reads the ID: the id of a stored    *)
(* folder, or 0 for an object that was never saved.                        *)
(***************************************************************************)

MaxRows == 4     \* rows in categories, folders and real_folders together
MaxTxRows == 3   \* the same, where the calls are made inside transactions

Sep == "/"

CategoryNames == { "eas", "uo" }
PublicPaths == { <<"2020">>, <<"2020", Sep, "sub">> }
RealPaths == { <<"vol1", Sep, "2020">>, <<"vol2", Sep, "2020">> }

NoFolder == [nil |-> TRUE, ID |-> 0]
FolderObjects(st) ==
    {NoFolder} \cup { [nil |-> FALSE, ID |-> k] : k \in 0..Len(st.folders) }

(* the stored folders, as *Folder arguments *)
StoredFolders(st) == { [nil |-> FALSE, ID |-> k] : k \in DOMAIN st.folders }

(* Select()...First(obj) without ORDER BY: false (here 0) when no row
   matches, else the matching row the table scan meets first *)
FirstOf(ids) ==
    IF ids = {} THEN 0 ELSE CHOOSE i \in ids : \A k \in ids : i <= k

(* strings.Count(path, string(os.PathSeparator)) *)
Depth(path) == Cardinality({ i \in DOMAIN path : path[i] = Sep })

(* _, filename = filepath.Split(path): what follows the last separator *)
FileName(path) ==
    IF path = <<>> \/ path[Len(path)] = Sep THEN "" ELSE path[Len(path)]

Answer(st, ret, err) == [store |-> st, ret |-> ret, err |-> err]

FindCategoryMissing(st, name) == 0

FindCategoryOlder(st, name) ==
    FirstOf({ i \in DOMAIN st.categories :
                st.categories[i].Name = name /\ i < Len(st.categories) })

FindCategoryByName(st, name) ==
    FirstOf({ i \in DOMAIN st.categories : st.categories[i].Name = name })

FindOrCreateCategory(st, name) ==
    LET found == FindCategoryByName(st, name)
        id == Len(st.categories) + 1
    IN  IF found # 0 THEN Answer(st, found, "")
        ELSE Answer([st EXCEPT !.categories =
                        Append(@, [ID |-> id, Name |-> name])], id, "")

FindFolderByPath(st, c, path) ==
    FirstOf({ i \in DOMAIN st.folders :
                st.folders[i].CategoryID = c /\ st.folders[i].PublicPath = path })

FindOrCreateFolder(st, c, f, path) ==
    LET parentFolderID == IF f.nil THEN 0 ELSE f.ID
        found == FindFolderByPath(st, c, path)
        id == Len(st.folders) + 1
    IN  IF found # 0
        THEN IF st.folders[found].FolderID # parentFolderID
             THEN Answer(st, 0, "existing record with different parent found")
             ELSE Answer(st, found, "")
        ELSE Answer([st EXCEPT !.folders =
                        Append(@, [ ID         |-> id,
                                    FolderID   |-> parentFolderID,
                                    CategoryID |-> c,
                                    Depth      |-> Depth(path),
                                    PublicPath |-> path,
                                    Name       |-> FileName(path) ])], id, "")

(* WHERE folder_id = ? AND full_path = ?  with (f.ID, path) *)
FindRealFolderByPath(st, fid, path) ==
    FirstOf({ i \in DOMAIN st.realFolders :
                /\ st.realFolders[i].FolderID = fid
                /\ st.realFolders[i].FullPath = path })

(* with f = nil, FindRealFolderByPath reads f.ID of a nil pointer *)
FindOrCreateRealFolder(st, f, path) ==
    LET fid == IF f.nil THEN 0 ELSE f.ID
        found == FindRealFolderByPath(st, fid, path)
        id == Len(st.realFolders) + 1
    IN  IF f.nil THEN Answer(st, 0, "panic: nil pointer dereference")
        ELSE IF found # 0
        THEN IF st.realFolders[found].FolderID # fid
             THEN Answer(st, 0, "existing record with different folder found")
             ELSE Answer(st, found, "")
        ELSE Answer([st EXCEPT !.realFolders =
                        Append(@, [ ID       |-> id,
                                    FolderID |-> fid,
                                    FullPath |-> path ])], id, "")

(* The calls a caller can make on the store st: the category argument is a
   stored category, the folder argument any of FolderObjects. *)
NoArgs == [op |-> "none", name |-> "", c |-> 0, f |-> NoFolder, path |-> <<>>]

CategoryCalls == { [NoArgs EXCEPT !.op = "category", !.name = n] : n \in CategoryNames }

FolderCalls(st) ==
    { [NoArgs EXCEPT !.op = "folder", !.c = c, !.f = f, !.path = p] :
        c \in DOMAIN st.categories, f \in FolderObjects(st), p \in PublicPaths }

RealFolderCalls(st) ==
    { [NoArgs EXCEPT !.op = "realFolder", !.f = f, !.path = p] :
        f \in FolderObjects(st), p \in RealPaths }

Calls(st) == CategoryCalls \cup FolderCalls(st) \cup RealFolderCalls(st)

Run(st, call) ==
    CASE call.op = "category" -> FindOrCreateCategory(st, call.name)
      [] call.op = "folder" -> FindOrCreateFolder(st, call.c, call.f, call.path)
      [] call.op = "realFolder" -> FindOrCreateRealFolder(st, call.f, call.path)

RowCount(st) == Len(st.categories) + Len(st.folders) + Len(st.realFolders)

CommitAlways(before, after, err) == after

(* InTransaction: Rollback when the callback returned an error, otherwise
   EndTransaction, which commits *)
EndTransaction(before, after, err) == IF err # "" THEN before ELSE after

(* The record of the most recent catalog call: its arguments, the store
   before it, what it returned, the store its writes produced (for a
   transaction: before commit or rollback), and what the same call answers
   when it is made once more right after it. *)
Observe(op, call, r, err) ==
    [ op |-> op, call |-> call, pre |-> store, ret |-> r.ret, err |-> err,
      after |-> r.store,
      again |-> IF op = "call" THEN Run(r.store, call) ELSE Answer(r.store, 0, "") ]

(* one find-or-create call on an Operation outside a transaction *)
Single(call) ==
    LET r == Run(store, call)
    IN  /\ RowCount(r.store) <= MaxRows
        /\ store' = r.store
        /\ obs' = Observe("call", call, r, r.err)
        /\ UNCHANGED <<vars, procs>>

FindOrCreateCategoryCall == \E call \in CategoryCalls : Single(call)
FindOrCreateFolderCall == \E call \in FolderCalls(store) : Single(call)
FindOrCreateRealFolderCall == \E call \in RealFolderCalls(store) : Single(call)

(* InTransaction with a callback that makes two find-or-create calls and
   returns the first error it meets, or an error of its own (fail), or nil *)
InTransaction ==
    \E c1 \in Calls(store) :
        LET r1 == Run(store, c1)
        IN  IF r1.err # ""
            THEN /\ store' = EndTransaction(store, r1.store, r1.err)
                 /\ obs' = Observe("tx", NoArgs, r1, r1.err)
                 /\ UNCHANGED <<vars, procs>>
            ELSE \E c2 \in Calls(r1.store), fail \in BOOLEAN :
                    LET r2 == Run(r1.store, c2)
                        err == IF r2.err # "" THEN r2.err
                               ELSE IF fail THEN "callback failed" ELSE ""
                    IN  /\ RowCount(r2.store) <= MaxTxRows
                        /\ store' = EndTransaction(store, r2.store, err)
                        /\ obs' = Observe("tx", NoArgs, r2, err)
                        /\ UNCHANGED <<vars, procs>>

CatalogNext ==
    \/ FindOrCreateCategoryCall
    \/ FindOrCreateFolderCall
    \/ FindOrCreateRealFolderCall

SpecCatalog == Init /\ [][CatalogNext]_allVars

SpecTx == Init /\ [][InTransaction]_allVars

----------------------------------------------------------------------------
(***************************************************************************)
(* GetFilesByIDs.                                                          *)
(*                                                                         *)
(* A public path is the sequence of its bytes.  The files table is the     *)
(* same in every state: nothing in this layer writes it.  Of the four      *)
(* files, two have public paths that differ only in case, and one lies a   *)
(* level deeper.                                                           *)
(***************************************************************************)

MaxIDs == 3      \* length of the list of ids of a request

ChunkSize == 2   \* ids per IN query

UpperA == 65
UpperZ == 90
CaseOffset == 32

FilesTable ==
    << [ID |-> 1, CategoryID |-> 1, Depth |-> 0, PublicPath |-> <<98>>],
       [ID |-> 2, CategoryID |-> 1, Depth |-> 0, PublicPath |-> <<65>>],
       [ID |-> 3, CategoryID |-> 2, Depth |-> 0, PublicPath |-> <<97>>],
       [ID |-> 4, CategoryID |-> 1, Depth |-> 1, PublicPath |-> <<65, 47, 97>>] >>

CategoriesTable == << [ID |-> 1, Name |-> "eas"], [ID |-> 2, Name |-> "uo"] >>

(* the folders "A" and "A/b" of category 1 *)
FoldersTable ==
    << [ ID |-> 1, FolderID |-> 0, CategoryID |-> 1, Depth |-> 0,
         PublicPath |-> <<65>>, Name |-> <<65>> ],
       [ ID |-> 2, FolderID |-> 1, CategoryID |-> 1, Depth |-> 1,
         PublicPath |-> <<65, 47, 98>>, Name |-> <<98>> ] >>

(* the ids a request may hold: those of the four files and one of no file *)
RequestIDs == 1..(Len(FilesTable) + 1)

Requests == UNION { [1..n -> RequestIDs] : n \in 0..MaxIDs }

Take(s, n) == SubSeq(s, 1, n)
Drop(s, n) == SubSeq(s, n + 1, Len(s))

(* Select().Where("id IN (?, ...)", ids...).AllObjects: every row whose id
   is among ids, once, as the scan of the table meets them *)
RECURSIVE SelectIn(_, _)
SelectIn(tbl, ids) ==
    IF Len(tbl) = 0 THEN <<>>
    ELSE (IF \E k \in DOMAIN ids : ids[k] = Head(tbl).ID
          THEN << [ ID |-> Head(tbl).ID, CategoryID |-> Head(tbl).CategoryID,
                    Depth |-> Head(tbl).Depth, PublicPath |-> Head(tbl).PublicPath ] >>
          ELSE <<>>)
            \o SelectIn(Tail(tbl), ids)

appendFiles(tbl, files, ids) == files \o SelectIn(tbl, ids)

(* for len(ids) > ChunkSize { appendFiles(ids[:ChunkSize]); ids = ids[ChunkSize:] }
   if len(ids) > 0 { appendFiles(ids) } *)
RECURSIVE Fetch(_, _, _)
Fetch(tbl, files, ids) ==
    IF Len(ids) > ChunkSize
    THEN Fetch(tbl, appendFiles(tbl, files, Take(ids, ChunkSize)), Drop(ids, ChunkSize))
    ELSE IF Len(ids) > 0 THEN appendFiles(tbl, files, ids) ELSE files

(* strings.ToLower on the bytes of a path *)
ToLower(path) ==
    [ i \in DOMAIN path |->
        IF path[i] >= UpperA /\ path[i] <= UpperZ THEN path[i] + CaseOffset
        ELSE path[i] ]

(* a < b for Go strings: bytewise lexicographic *)
RECURSIVE StringLess(_, _)
StringLess(a, b) ==
    IF b = <<>> THEN FALSE
    ELSE IF a = <<>> THEN TRUE
    ELSE IF Head(a) # Head(b) THEN Head(a) < Head(b)
    ELSE StringLess(Tail(a), Tail(b))

(* the less function given to sort.Slice *)
Less(f, g) ==
    IF f.Depth # g.Depth THEN f.Depth < g.Depth
    ELSE StringLess(ToLower(f.PublicPath), ToLower(g.PublicPath))

(* insertionSort: data[j] moves left while less(data[j], data[j-1]) *)
RECURSIVE Insert(_, _)
Insert(sorted, f) ==
    IF Len(sorted) = 0 THEN <<f>>
    ELSE IF Less(f, sorted[Len(sorted)])
         THEN Append(Insert(Take(sorted, Len(sorted) - 1), f), sorted[Len(sorted)])
         ELSE Append(sorted, f)

RECURSIVE SortPrefix(_, _)
SortPrefix(files, n) ==
    IF n = 0 THEN <<>> ELSE Insert(SortPrefix(files, n - 1), files[n])

(* sort.Slice(files, less).  sort.Slice is not stable and promises no order
   between elements neither of which is less than the other; what it does
   on the slices of this model, all shorter than 7 elements, is the plain
   insertion sort computed here. *)
SortSlice(files) == SortPrefix(files, Len(files))

(* PopulateCategories(files, nil): f.Category = categoryLookup[f.CategoryID] *)
PopulateCategories(st, files) ==
    [ i \in DOMAIN files |->
        [ ID |-> files[i].ID, CategoryID |-> files[i].CategoryID,
          Depth |-> files[i].Depth, PublicPath |-> files[i].PublicPath,
          Category |-> IF files[i].CategoryID \in DOMAIN st.categories
                       THEN st.categories[files[i].CategoryID].Name
                       ELSE "nil" ] ]

FilesByIDs(st, ids) ==
    PopulateCategories(st, SortSlice(Fetch(st.files, <<>>, ids)))

GetFilesByIDs ==
    \E ids \in Requests :
        /\ obs' = [op |-> "fetch", ids |-> ids, files |-> FilesByIDs(store, ids)]
        /\ UNCHANGED <<vars, store, procs>>

(* a database in which files, folders and categories have been indexed *)
FetchInit ==
    /\ jobs = <<>> /\ now = 1 /\ done = {} /\ writes = 0 /\ last = NoCall
    /\ store = [ categories |-> CategoriesTable, folders |-> FoldersTable,
                 realFolders |-> <<>>, files |-> FilesTable ]
    /\ obs = NoObs
    /\ procs = <<>>

SpecFetch == FetchInit /\ [][GetFilesByIDs]_allVars

----------------------------------------------------------------------------
(***************************************************************************)
(* SearchFiles and SearchFolders.  The select they build (FileSelect,      *)
(* FolderSelect, TreeMode, Search, Limit, AllObjects) is written down from *)
(* the specification: a search of the descendants of the root folder, or   *)
(* of the whole category when there is none, for the rows whose column     *)
(* holds the term; the result is the matching rows capped at the limit,    *)
(* and the number of all matching rows.                                    *)
(***************************************************************************)

MaxLimit == 3

Limits == 1..MaxLimit
Terms == { <<97>>, <<98>>, <<47>> }
PathSeparator == 47

Min(a, b) == IF a < b THEN a ELSE b

IsPrefix(a, b) == Len(a) <= Len(b) /\ SubSeq(b, 1, Len(a)) = a

(* term occurs in value *)
Contains(value, term) ==
    \E i \in 0..(Len(value) - Len(term)) : SubSeq(value, i + 1, i + Len(term)) = term

(* the rows of the category below the root folder f; all of them for f nil *)
TreeMode(st, rows, c, f) ==
    SelectSeq(rows, LAMBDA row :
        /\ row.CategoryID = c
        /\ f.nil \/ IsPrefix(Append(st.folders[f.ID].PublicPath, PathSeparator),
                              row.PublicPath))

(* column LIKE term, on an SQLite database: case is ignored *)
Like(value, term) == Contains(ToLower(value), ToLower(term))

(* AllObjects on a select with a limit: the rows up to the limit, and the
   count of all rows the select matches *)
AllObjects(rows, limit) ==
    [rows |-> Take(rows, Min(limit, Len(rows))), count |-> Len(rows)]

CountOfReturned(rows, limit) ==
    [rows |-> Take(rows, Min(limit, Len(rows))), count |-> Min(limit, Len(rows))]

SearchFilesCapped(st, c, f, term, limit) ==
    CountOfReturned(SelectSeq(TreeMode(st, st.files, c, f),
                              LAMBDA row : Like(row.PublicPath, term)), limit)

SearchFiles(st, c, f, term, limit) ==
    AllObjects(SelectSeq(TreeMode(st, st.files, c, f),
                         LAMBDA row : Like(row.PublicPath, term)), limit)

SearchFolders(st, c, f, term, limit) ==
    AllObjects(SelectSeq(TreeMode(st, st.folders, c, f),
                         LAMBDA row : Like(row.Name, term)), limit)

SearchCall(op, c, f, term, limit, r) ==
    /\ obs' = [ op |-> op, c |-> c, f |-> f, term |-> term, limit |-> limit,
                rows |-> r.rows, count |-> r.count ]
    /\ UNCHANGED <<vars, store, procs>>

SearchFilesCall ==
    \E c \in DOMAIN store.categories, f \in {NoFolder} \cup StoredFolders(store),
       term \in Terms, limit \in Limits :
        SearchCall("searchFiles", c, f, term, limit, SearchFiles(store, c, f, term, limit))

SearchFoldersCall ==
    \E c \in DOMAIN store.categories, f \in {NoFolder} \cup StoredFolders(store),
       term \in Terms, limit \in Limits :
        SearchCall("searchFolders", c, f, term, limit, SearchFolders(store, c, f, term, limit))

SearchNext == SearchFilesCall \/ SearchFoldersCall

SpecSearch == FetchInit /\ [][SearchNext]_allVars

----------------------------------------------------------------------------
(***************************************************************************)
(* The path collapser, written down from the specification: the archive    *)
(* path format (the path grammar) is checked once at startup; after that a *)
(* physical path, a sequence of segments, is collapsed into a category     *)
(* name and a public path.                                                 *)
(***************************************************************************)

MaxTags == 3       \* role tags of a path grammar
MaxSegments == 5   \* segments of a physical path

Roles == { "project", "date", "ignore" }

(* ARCHIVE_PATH_FORMAT="ignore/project/date" *)
ArchivePathFormat == << "ignore", "project", "date" >>

Grammars == UNION { [1..n -> Roles] : n \in 0..MaxTags }

Segments == { "VolumeA", "ProjectX", "2020-01-01", "sub", "file.tif" }

(* the segments that are a date in YYYY-MM-DD format *)
Dates == { "2020-01-01" }

PhysicalPaths == UNION { [1..n -> Segments] : n \in 0..MaxSegments }

TagCount(grammar, role) ==
    Cardinality({ i \in DOMAIN grammar : grammar[i] = role })

(* exactly one project tag and exactly one date tag *)
ValidGrammar(grammar) ==
    TagCount(grammar, "project") = 1 /\ TagCount(grammar, "date") = 1

TagIndex(grammar, role) == CHOOSE i \in DOMAIN grammar : grammar[i] = role

Collapsed(err, category, public) ==
    [err |-> err, category |-> category, public |-> public]

CollapseFromDate(grammar, path) ==
    IF Len(path) < Len(grammar) \/ path[TagIndex(grammar, "date")] \notin Dates
    THEN Collapsed("MalformedPathError", "", <<>>)
    ELSE Collapsed("", path[TagIndex(grammar, "project")],
                   Drop(path, TagIndex(grammar, "date") - 1))

(* the first K segments take the roles of the grammar: the project segment
   is the category name, the date segment and the segments beyond K make
   the public path, ignore segments are dropped *)
Collapse(grammar, path) ==
    LET K == Len(grammar)
    IN  IF Len(path) < K
            THEN Collapsed("MalformedPathError", "", <<>>)
        ELSE IF path[TagIndex(grammar, "date")] \notin Dates
            THEN Collapsed("MalformedPathError", "", <<>>)
        ELSE Collapsed("", path[TagIndex(grammar, "project")],
                       <<path[TagIndex(grammar, "date")]>> \o Drop(path, K))

(* startup: a bad path grammar is fatal, no path is processed with it *)
Configure ==
    /\ obs.op = "none"
    /\ \E grammar \in Grammars :
        obs' = [ op |-> "configure", grammar |-> grammar, path |-> <<>>,
                 out |-> Collapsed(IF ValidGrammar(grammar) THEN ""
                                   ELSE "ConfigurationError", "", <<>>) ]
    /\ UNCHANGED <<vars, store, procs>>

(* the collapser keeps nothing from one path to the next: a behaviour
   collapses one path with the grammar it was started with *)
CollapsePath ==
    /\ obs.op = "configure"
    /\ obs.out.err = ""
    /\ \E path \in PhysicalPaths :
        obs' = [ op |-> "collapse", grammar |-> obs.grammar, path |-> path,
                 out |-> Collapse(obs.grammar, path) ]
    /\ UNCHANGED <<vars, store, procs>>

CollapseNext == Configure \/ CollapsePath

SpecCollapse == Init /\ [][CollapseNext]_allVars

----------------------------------------------------------------------------
(***************************************************************************)
(* FindOrCreateCategory by callers that run at the same time, each on its  *)
(* own Operation (db.Operation(), no transaction around the call).  A      *)
(* caller takes two steps: the SELECT of FindCategoryByName, and, when it  *)
(* found no row, the INSERT of Save.  Other callers may step in between.   *)
(***************************************************************************)

Callers == { 1, 2 }

Idle == [pc |-> "idle", name |-> "", ret |-> 0]

(* Categories.Save(c) of a new Category: the row is inserted.  The table
   is taken to accept a second row of the same name, as the concurrency
   caveat of the specification has it. *)
InsertCategory(st, name) ==
    [st EXCEPT !.categories = Append(@, [ID |-> Len(@) + 1, Name |-> name])]

(* true when a caller's lookup found no row while another caller had
   looked up the same name, found no row, and not yet saved *)
Overlapping(p, name) ==
    \E q \in Callers \ {p} :
        procs.callers[q].pc = "save" /\ procs.callers[q].name = name

LookupCategory(p) ==
    /\ procs.callers[p].pc = "idle"
    /\ \E name \in CategoryNames :
        LET found == FindCategoryByName(store, name)
        IN  procs' =
                IF found # 0
                THEN [procs EXCEPT !.callers[p] = [Idle EXCEPT !.name = name, !.ret = found]]
                ELSE [procs EXCEPT !.callers[p] = [Idle EXCEPT !.pc = "save", !.name = name],
                                   !.overlap = @ \/ Overlapping(p, name)]
    /\ UNCHANGED <<vars, store, obs>>

SaveCategory(p) ==
    /\ procs.callers[p].pc = "save"
    /\ Len(store.categories) < MaxRows
    /\ store' = InsertCategory(store, procs.callers[p].name)
    /\ procs' = [procs EXCEPT !.callers[p] =
                    [Idle EXCEPT !.name = procs.callers[p].name,
                                 !.ret = Len(store.categories) + 1]]
    /\ UNCHANGED <<vars, obs>>

RaceInit ==
    /\ jobs = <<>> /\ now = 1 /\ done = {} /\ writes = 0 /\ last = NoCall
    /\ store = [categories |-> <<>>, folders |-> <<>>, realFolders |-> <<>>]
    /\ obs = NoObs
    /\ procs = [callers |-> [p \in Callers |-> Idle], overlap |-> FALSE]

RaceNext == \E p \in Callers : LookupCategory(p) \/ SaveCategory(p)

SpecRace == RaceInit /\ [][RaceNext]_allVars

----------------------------------------------------------------------------
(***************************************************************************)
(* ProcessArchiveJob by pollers that run at the same time, each on its own *)
(* Operation.  A poller takes two steps: the SELECT that loads the oldest  *)
(* due job into its object j, and, after its callback has returned, the    *)
(* assignment to j and the Save.  Other pollers, QueueArchiveJob and the   *)
(* clock may step in between.  The callbacks here write nothing to j.      *)
(***************************************************************************)

Pollers == { 1, 2 }

NotPolling == [pc |-> "idle", j |-> <<>>, at |-> 0]

(* true when a poller selects while another is between its select and its
   save *)
OtherPolling(p) == \E q \in Pollers \ {p} : procs.pollers[q].pc = "callback"

(* sel.Order("created_at ASC").Limit(1).First(j); return nil when !ok *)
SelectJob(p) ==
    /\ procs.pollers[p].pc = "idle"
    /\ \E i \in First(jobs, now) :
        procs' = [procs EXCEPT
                    !.pollers[p] = [pc |-> "callback", j |-> jobs[i], at |-> now],
                    !.overlap = @ \/ OtherPolling(p)]
    /\ UNCHANGED <<vars, store, obs>>

(* if cb(j) { j.Processed = true } else { j.NextAttemptAt = ... }; Save(j) *)
SaveJob(p) ==
    /\ procs.pollers[p].pc = "callback"
    /\ \E ret \in BOOLEAN :
        jobs' = Save(jobs, AfterCallback(procs.pollers[p].j, ret, now))
    /\ procs' = [procs EXCEPT !.pollers[p] = NotPolling]
    /\ UNCHANGED <<now, done, writes, last, store, obs>>

(* QueueArchiveJob with lists that are not empty, by a request handler
   running beside the pollers *)
QueueWhilePolling ==
    /\ Len(jobs) < MaxJobs
    /\ \E addrs \in AddrLists, files \in FileLists :
        /\ ~QueueError(addrs, files)
        /\ jobs' = Save(jobs, NewArchiveJob(addrs, files, now))
    /\ UNCHANGED <<now, done, writes, last>>
    /\ UNCHANGED catVars

PollInit ==
    /\ jobs = <<>> /\ now = 1 /\ done = {} /\ writes = 0 /\ last = NoCall
    /\ store = [categories |-> <<>>, folders |-> <<>>, realFolders |-> <<>>]
    /\ obs = NoObs
    /\ procs = [pollers |-> [p \in Pollers |-> NotPolling], overlap |-> FALSE]

PollNext ==
    \/ Tick
    \/ QueueWhilePolling
    \/ \E p \in Pollers : SelectJob(p) \/ SaveJob(p)

SpecPoll == PollInit /\ [][PollNext]_allVars

----------------------------------------------------------------------------
(***************************************************************************)
(* ProcessArchiveJob on a store whose statements may fail.  A failed       *)
(* statement loads or writes nothing and leaves its error in the           *)
(* Operation, where op.Operation.Err() finds it.  One poller; the          *)
(* callbacks here write nothing to the job object.                         *)
(***************************************************************************)

ReturnNoJobFirst(ok, failed) ==
    IF ~ok THEN "nil" ELSE IF failed THEN "error" ELSE "callback"

(* after First(j): if op.Operation.Err() != nil { return op.Operation.Err() }
                   if !ok { return nil } *)
AfterSelect(ok, failed) ==
    IF failed THEN "error" ELSE IF ~ok THEN "nil" ELSE "callback"

ProcessOnFailingStore ==
    /\ \E selectFails \in BOOLEAN, saveFails \in BOOLEAN, ret \in BOOLEAN :
        \E i \in IF selectFails \/ First(jobs, now) = {} THEN {0} ELSE First(jobs, now) :
            LET ok == i # 0
                way == AfterSelect(ok, selectFails)
                rec == [ op |-> "process", pre |-> jobs, selectFailed |-> selectFails,
                         way |-> way, calls |-> 0, err |-> FALSE, post |-> jobs ]
            IN  IF way = "error" THEN
                    /\ obs' = [rec EXCEPT !.err = TRUE]
                    /\ UNCHANGED jobs
                ELSE IF way = "nil" THEN
                    /\ obs' = rec
                    /\ UNCHANGED jobs
                ELSE
                    /\ ok
                    /\ jobs' = IF saveFails THEN jobs
                               ELSE Save(jobs, AfterCallback(jobs[i], ret, now))
                    /\ obs' = [rec EXCEPT !.calls = 1, !.err = saveFails, !.post = jobs']
    /\ UNCHANGED <<now, done, writes, last, store, procs>>

StorageNext == Tick \/ QueueWhilePolling \/ ProcessOnFailingStore

SpecStorage == Init /\ [][StorageNext]_allVars

----------------------------------------------------------------------------
(***************************************************************************)
(* One poller that calls ProcessArchiveJob for ever, on a clock that       *)
(* advances for ever.  The jobs have been queued one after the other       *)
(* before the polling starts.  To follow a clock without end in finitely   *)
(* many states, time is kept relative to the present: now stays what it    *)
(* was when the polling started, and when an hour passes every             *)
(* next_attempt_at moves one hour towards the past, not beyond the zero    *)
(* time, before which every reading of the clock lies anyway.  created_at  *)
(* is only compared between jobs and stays.  procs is the set of the ids   *)
(* of the jobs that have been passed to a callback.  The callbacks here    *)
(* write nothing to the job object.                                        *)
(***************************************************************************)

(* how many jobs wait when the polling starts, at most *)
MaxWaiting == 3

(* the table after d hours have passed *)
Elapse(tbl, d) ==
    [ i \in DOMAIN tbl |->
        [tbl[i] EXCEPT !.NextAttemptAt = IF @ > d THEN @ - d ELSE ZeroTime] ]

(* n calls of QueueArchiveJob, at the clock readings 1..n *)
QueuedInTurn(n) ==
    [ i \in 1..n |->
        [NewArchiveJob(<<Ann, Bob>>, <<FileA, FileB>>, i) EXCEPT !.ID = i] ]

LiveInit ==
    /\ \E n \in 1..MaxWaiting : jobs = QueuedInTurn(n) /\ now = n + 1
    /\ done = {} /\ writes = 0 /\ last = NoCall
    /\ store = [categories |-> <<>>, folders |-> <<>>, realFolders |-> <<>>]
    /\ obs = NoObs
    /\ procs = {}

(* an hour passes between two calls of the poller *)
HourPasses ==
    /\ jobs' = Elapse(jobs, Hour)
    /\ UNCHANGED <<now, done, writes, last, store, obs, procs>>

(* the poller's call of ProcessArchiveJob *)
Poll ==
    /\ IF First(jobs, now) = {}
       THEN UNCHANGED <<jobs, procs>>
       ELSE \E i \in First(jobs, now), ret \in BOOLEAN :
                /\ jobs' = Save(jobs, AfterCallback(jobs[i], ret, now))
                /\ procs' = procs \cup {i}
    /\ UNCHANGED <<now, done, writes, last, store, obs>>

LiveNext == HourPasses \/ Poll

(* the poller calls infinitely often, and the clock keeps advancing *)
SpecLive ==
    /\ LiveInit
    /\ [][LiveNext]_allVars
    /\ WF_allVars(Poll)
    /\ WF_allVars(HourPasses)

----------------------------------------------------------------------------
(***************************************************************************)
(* The earlier queue: zip jobs.  jobs is the zip_jobs table, its rows in   *)
(* the order of their insertion; a finished job is deleted, so a row's     *)
(* place in the sequence is not its id.  obs is the last call of           *)
(* ProcessZipJob that found a job, procs the id of the job that the last   *)
(* such call selected when its callback returned false, and 0 otherwise.   *)
(* The store works in these calls.                                         *)
(***************************************************************************)

(* the ids the table assigns, at most *)
MaxZipJobs == 3

(* the struct literal of QueueZipJob: ID is not assigned *)
NewZipJob(addrs, files, t) ==
    [ ID                 |-> 0,
      CreatedAt          |-> t,
      NotificationEmails |-> Join(Emails(addrs), Comma),
      Files              |-> Join(FilePaths(files), RS) ]

ZipIDs(tbl) == { tbl[i].ID : i \in DOMAIN tbl }

(* the id an INSERT gives the new row: one more than the largest stored *)
NextZipID(tbl) ==
    IF tbl = <<>> THEN 1
    ELSE 1 + CHOOSE m \in ZipIDs(tbl) : \A k \in ZipIDs(tbl) : k <= m

(* OperationTable.Save of an object whose primary key is zero *)
InsertZipJob(tbl, obj) == Append(tbl, [obj EXCEPT !.ID = NextZipID(tbl)])

NewestZipJobs(tbl) ==
    { i \in DOMAIN tbl : \A k \in DOMAIN tbl : tbl[i].CreatedAt >= tbl[k].CreatedAt }

(* Select().Order("created_at ASC").Limit(1).First(zj): the rows it may
   load.  No WHERE clause; SQL leaves the order of rows with equal
   created_at open. *)
OldestZipJobs(tbl) ==
    { i \in DOMAIN tbl : \A k \in DOMAIN tbl : tbl[i].CreatedAt <= tbl[k].CreatedAt }

(* DELETE FROM zip_jobs WHERE id = ? *)
DeleteZipJob(tbl, id) ==
    LET keep(r) == r.ID # id IN SelectSeq(tbl, keep)

ZipInit ==
    /\ jobs = <<>> /\ now = 1 /\ done = {} /\ writes = 0 /\ last = NoCall
    /\ store = [categories |-> <<>>, folders |-> <<>>, realFolders |-> <<>>]
    /\ obs = NoObs
    /\ procs = 0

QueueZipJob ==
    /\ \E addrs \in AddrLists, files \in FileLists :
          IF QueueError(addrs, files) \/ NextZipID(jobs) > MaxZipJobs
          THEN UNCHANGED jobs
          ELSE jobs' = InsertZipJob(jobs, NewZipJob(addrs, files, now))
    /\ UNCHANGED <<now, done, writes, last, store, obs, procs>>

(* The callback holds the pointer zj: it returns ret and leaves id in
   zj.ID, which is the id of the loaded row unless it has written to the
   field. *)
ProcessZipJob ==
    /\ IF jobs = <<>>
       THEN UNCHANGED <<jobs, obs, procs>>
       ELSE \E i \in OldestZipJobs(jobs), ret \in BOOLEAN, id \in 0..MaxZipJobs :
                /\ jobs' = IF ret THEN DeleteZipJob(jobs, id) ELSE jobs
                /\ obs' = [ op |-> "processZip", pre |-> jobs, zj |-> jobs[i],
                            ret |-> ret, id |-> id, post |-> jobs',
                            before |-> procs ]
                /\ procs' = IF ret THEN 0 ELSE jobs[i].ID
    /\ UNCHANGED <<now, done, writes, last, store>>

ZipNext == Tick \/ QueueZipJob \/ ProcessZipJob

SpecZip == ZipInit /\ [][ZipNext]_allVars

----------------------------------------------------------------------------
(* Claims about the catalog *)

Called == obs.op = "call"
Succeeded == Called /\ obs.err = ""
Created(tbl) == Len(store[tbl]) = Len(obs.pre[tbl]) + 1

(* at most one row of the table per value of key *)
UniqueBy(tbl, key(_)) ==
    \A i, k \in DOMAIN tbl : key(tbl[i]) = key(tbl[k]) => i = k

CategoryKey(row) == row.Name
FolderKey(row) == <<row.CategoryID, row.PublicPath>>
RealFolderKey(row) == <<row.FolderID, row.FullPath>>

(* C11: with one writer, a find-or-create call that succeeded, made again
   with the same arguments, returns the same id and adds no row; and there
   is at most one category per name, one folder per (category, public
   path) and one real folder per (folder, full path). *)
C11_FindOrCreateIdempotent ==
    /\ Succeeded =>
        /\ obs.again.err = ""
        /\ obs.again.ret = obs.ret
        /\ obs.again.store = store
    /\ UniqueBy(store.categories, CategoryKey)
    /\ UniqueBy(store.folders, FolderKey)
    /\ UniqueBy(store.realFolders, RealFolderKey)

(* each of the three calls has created a row, among two rows of its table *)
C11_Witness ==
    /\ Succeeded
    /\ Len(store.categories) = 2
    /\ Len(store.folders) = 1
    /\ Len(store.realFolders) = 1
    /\ Created("realFolders")

CreatedFolder == Succeeded /\ obs.call.op = "folder" /\ Created("folders")

(* C12: once a folder has been created at a path of a category under
   parent A (no parent, or a folder object), the same call with any other
   parent B fails with an error and writes nothing; and no call changes
   the parent id of a stored folder. *)
C12_OtherParentFails ==
    /\ CreatedFolder =>
        \A B \in FolderObjects(store) \ {obs.call.f} :
            LET r == Run(store, [obs.call EXCEPT !.f = B])
            IN  r.err # "" /\ r.store = store
    /\ Called =>
        \A i \in DOMAIN obs.pre.folders :
            store.folders[i].FolderID = obs.pre.folders[i].FolderID

CreatedRealFolder == Succeeded /\ obs.call.op = "realFolder" /\ Created("realFolders")

(* C13: once a real folder has been created with a full path for a stored
   folder F, the same call for any other stored folder G fails with an
   error and creates no row; so a full path never belongs to two stored
   folders. *)
C13_OneFolderPerFullPath ==
    /\ (CreatedRealFolder /\ obs.call.f \in StoredFolders(store)) =>
        \A G \in StoredFolders(store) \ {obs.call.f} :
            LET r == Run(store, [obs.call EXCEPT !.f = G])
            IN  r.err # "" /\ r.store = store
    /\ \A i, k \in DOMAIN store.realFolders :
            /\ store.realFolders[i].FullPath = store.realFolders[k].FullPath
            /\ store.realFolders[i].FolderID \in DOMAIN store.folders
            /\ store.realFolders[k].FolderID \in DOMAIN store.folders
            => store.realFolders[i].FolderID = store.realFolders[k].FolderID

InTx == obs.op = "tx"

(* C16: InTransaction is all-or-nothing: when the callback returns an
   error, the error is returned and the tables are as they were before the
   transaction, whatever the callback had written; when it returns nil,
   the tables are as the callback's writes left them. *)
C16_AllOrNothing ==
    InTx => IF obs.err # "" THEN store = obs.pre ELSE store = obs.after

(* a callback created a category and then failed on a folder whose parent
   conflicts: the category is not in the store *)
C16_Witness ==
    /\ InTx
    /\ obs.err = "existing record with different parent found"
    /\ Len(obs.after.categories) = Len(obs.pre.categories) + 1
    /\ store = obs.pre

----------------------------------------------------------------------------
(* Claims about GetFilesByIDs *)

Fetched == obs.op = "fetch"
Requested(id) == \E k \in DOMAIN obs.ids : obs.ids[k] = id
Returned(id) == { i \in DOMAIN obs.files : obs.files[i].ID = id }

(* C14: GetFilesByIDs returns exactly the stored files whose id occurs in
   the request, each exactly once, whatever the length and order of the
   request and whether or not ids are repeated or absent from the store. *)
C14_EachRequestedFileOnce ==
    Fetched =>
        /\ \A i \in DOMAIN obs.files : Requested(obs.files[i].ID)
        /\ \A i \in DOMAIN store.files :
              Requested(store.files[i].ID)
                  => Cardinality(Returned(store.files[i].ID)) = 1

Distinct(ids) == \A i, k \in DOMAIN ids : ids[i] = ids[k] => i = k

Reorderings(ids) ==
    { [ i \in DOMAIN ids |-> ids[q[i]] ] :
        q \in { a \in [DOMAIN ids -> DOMAIN ids] : Distinct(a) } }

(* C15: the result of GetFilesByIDs is sorted by depth and then by
   lower-cased public path, and a request of the same ids in any other
   order returns the identical sequence (stated for requests without
   repeated ids). *)
C15_SameResultInAnyOrder ==
    (Fetched /\ Distinct(obs.ids)) =>
        /\ \A i, k \in DOMAIN obs.files :
              i < k => ~Less(obs.files[k], obs.files[i])
        /\ \A p \in Reorderings(obs.ids) : FilesByIDs(store, p) = obs.files

----------------------------------------------------------------------------
(* Claims about concurrent callers *)

(* C17, as stated: callers of FindOrCreateCategory running at the same
   time, in any interleaving of their lookups and saves, never leave two
   category rows with one name. *)
C17_NoDuplicateCategories ==
    \A i, k \in DOMAIN store.categories :
        store.categories[i].Name = store.categories[k].Name => i = k

(* C17, amended: as long as no caller has looked a name up between another
   caller's lookup of that name and its save, there are no two category
   rows with one name. *)
C17_NoDuplicatesWithoutOverlap ==
    ~procs.overlap => UniqueBy(store.categories, CategoryKey)

(* both callers have created a category, one after the other, and a later
   call has found the row of the other caller *)
C17_Witness ==
    /\ ~procs.overlap
    /\ Len(store.categories) = 2
    /\ procs.callers[1].pc = "idle" /\ procs.callers[2].pc = "idle"
    /\ procs.callers[1].ret = 2 /\ procs.callers[2].ret = 2

----------------------------------------------------------------------------
(* Claims about search *)

Searched == obs.op \in {"searchFiles", "searchFolders"}

SearchAgain(limit) ==
    IF obs.op = "searchFiles"
    THEN SearchFiles(store, obs.c, obs.f, obs.term, limit)
    ELSE SearchFolders(store, obs.c, obs.f, obs.term, limit)

(* C18: for a store, category, root folder and term, SearchFiles and
   SearchFolders return the same total count whatever the limit, and a
   slice of min(limit, total) rows. *)
C18_CountIndependentOfLimit ==
    Searched =>
        /\ \A limit \in Limits : SearchAgain(limit).count = obs.count
        /\ Len(obs.rows) = Min(obs.limit, obs.count)

(* a search that matched more files than its limit let through *)
C18_Witness ==
    /\ obs.op = "searchFiles"
    /\ obs.limit = 1
    /\ Len(obs.rows) = 1
    /\ obs.count = 2

----------------------------------------------------------------------------
(* Claims about the path collapser *)

CollapsedPath == obs.op = "collapse"
K == Len(obs.grammar)

(* the segments of path at the given positions, in their order *)
RECURSIVE Pick(_, _, _)
Pick(path, keep, i) ==
    IF i > Len(path) THEN <<>>
    ELSE (IF i \in keep THEN <<path[i]>> ELSE <<>>) \o Pick(path, keep, i + 1)

(* C19: with a valid grammar of K tags, a physical path of at least K
   segments whose date segment is a date collapses to the project segment
   as category name and, as public path, the date segment followed by the
   segments beyond K in their order, ignore segments dropped; the path
   VolumeA/ProjectX/2020-01-01/sub/file.tif under ignore/project/date
   gives (ProjectX, 2020-01-01/sub/file.tif); a path shorter than K is
   rejected. *)
C19_CollapseByGrammar ==
    CollapsedPath =>
        /\ ValidGrammar(obs.grammar)
        /\ Len(obs.path) < K => obs.out.err = "MalformedPathError"
        /\ (/\ Len(obs.path) >= K
            /\ \E i \in 1..K : obs.grammar[i] = "date" /\ obs.path[i] \in Dates)
            => /\ obs.out.err = ""
               /\ \E i \in 1..K :
                     obs.grammar[i] = "project" /\ obs.out.category = obs.path[i]
               /\ obs.out.public =
                     Pick(obs.path, { i \in 1..Len(obs.path) :
                                        i > K \/ obs.grammar[i] = "date" }, 1)
        /\ (/\ obs.grammar = ArchivePathFormat
            /\ obs.path = <<"VolumeA", "ProjectX", "2020-01-01", "sub", "file.tif">>)
            => /\ obs.out.category = "ProjectX"
               /\ obs.out.public = <<"2020-01-01", "sub", "file.tif">>

(* the example of the specification has been collapsed *)
C19_Witness ==
    /\ CollapsedPath
    /\ obs.grammar = ArchivePathFormat
    /\ obs.path = <<"VolumeA", "ProjectX", "2020-01-01", "sub", "file.tif">>
    /\ obs.out.err = ""

----------------------------------------------------------------------------
(* A claim of the comment of ProcessArchiveJob *)

(* C20, as stated: when the callback returns success, the archive job is
   removed from the database: after the call no row of that job remains. *)
C20_RemovedOnSuccess ==
    (Claimed /\ last.ret) =>
        \A i \in DOMAIN jobs : jobs[i].ID # last.pre[last.handed].ID

(* C20, amended: when the callback returns success, no row is removed: the
   job object is saved with processed = true, and for a callback that left
   the object as handed the job's row is the row it was, with processed =
   true. *)
C20_KeptAndMarkedOnSuccess ==
    (Claimed /\ last.ret) =>
        /\ Len(jobs) >= Len(last.pre)
        /\ \A i \in DOMAIN last.pre : jobs[i].ID = last.pre[i].ID
        /\ SavedRow \in DOMAIN jobs
        /\ jobs[SavedRow].Processed = TRUE
        /\ last.obj = last.pre[last.handed] =>
              jobs[last.handed] = [last.pre[last.handed] EXCEPT !.Processed = TRUE]

(* a callback returned true for a job it left as handed, with another job
   in the table *)
C20_Witness ==
    /\ Claimed /\ last.ret
    /\ last.obj = last.pre[last.handed]
    /\ Len(jobs) = 2
    /\ jobs[last.handed].Processed = TRUE

----------------------------------------------------------------------------
(* A further claim about the catalog *)

UnsavedFolder == [nil |-> FALSE, ID |-> 0]

(* C23: FindOrCreateFolder tells "no parent" from "parent with id 0": once
   a folder has been created as top-level (f = nil), the same call with a
   folder object whose ID is 0 as parent fails with the parent-conflict
   error instead of returning the top-level folder. *)
C23_NoParentIsNotParentZero ==
    (CreatedFolder /\ obs.call.f.nil) =>
        LET r == Run(store, [obs.call EXCEPT !.f = UnsavedFolder])
        IN  /\ r.err = "existing record with different parent found"
            /\ r.ret # obs.ret

----------------------------------------------------------------------------
(* Claims about concurrent pollers *)

InCallback(p) == procs.pollers[p].pc = "callback"

(* one job is in the hands of two callbacks at once *)
DoubleClaimed ==
    \E p, q \in Pollers :
        /\ p # q
        /\ InCallback(p) /\ InCallback(q)
        /\ procs.pollers[p].j.ID = procs.pollers[q].j.ID

(* C21: a job a poller hands to its callback was Ready (unprocessed, retry
   time passed) when the poller selected it, and two callbacks hold one job
   at once only when one poller's select ran between the other's select and
   save; with pollers that do so, that state is reached (the witness). *)
C21_DoubleClaimOnlyByOverlap ==
    /\ \A p \in Pollers :
          InCallback(p) => Due(procs.pollers[p].j, procs.pollers[p].at)
    /\ DoubleClaimed => procs.overlap

(* both pollers selected before either saved and hold the same job *)
C21_Witness == DoubleClaimed /\ Len(jobs) = 2

----------------------------------------------------------------------------
(* Claims about storage failures *)

(* C22: when the select of ProcessArchiveJob fails, the call returns the
   error, the callback is not invoked and every job is as it was; a failed
   select is never answered with the nil of "no job". *)
C22_SelectErrorReturned ==
    (obs.op = "process" /\ obs.selectFailed) =>
        /\ obs.err
        /\ obs.way # "nil"
        /\ obs.calls = 0
        /\ obs.post = obs.pre

(* the select failed on a table that held a job *)
C22_Witness ==
    /\ obs.op = "process" /\ obs.selectFailed
    /\ Len(obs.pre) > 0
    /\ obs.err

----------------------------------------------------------------------------
(* A claim about a poller that never stops *)

(* C24: with one poller that calls ProcessArchiveJob infinitely often and
   a clock that keeps advancing, every queued job is eventually passed to
   the callback, whatever the callbacks of older jobs return and however
   long the poller waits between its calls. *)
C24_EveryJobEventuallyHanded ==
    \A i \in 1..MaxWaiting : [](i \in DOMAIN jobs => <>(i \in procs))

----------------------------------------------------------------------------
(* A claim about the zip-job queue *)

ProcessedZip == obs.op = "processZip"

(* the stored row with the given id *)
ZipRow(tbl, id) == tbl[CHOOSE i \in DOMAIN tbl : tbl[i].ID = id]

(* the job selected by the call before, whose callback returned false *)
FailedBefore == ProcessedZip /\ obs.before # 0

OnlyOldest(tbl, row) ==
    \A k \in DOMAIN tbl : tbl[k].CreatedAt = row.CreatedAt => tbl[k] = row

(* C25: ProcessZipJob selects the job with the oldest created_at of all
   stored jobs, deletes that job exactly when the callback returns true and
   leaves the table as it was when the callback returns false; the call
   that follows a failed one selects the same job again. *)
C25_SameJobUntilSuccess ==
    ProcessedZip =>
        /\ \A k \in DOMAIN obs.pre : obs.zj.CreatedAt <= obs.pre[k].CreatedAt
        /\ obs.ret => obs.post = DeleteZipJob(obs.pre, obs.zj.ID)
        /\ ~obs.ret => obs.post = obs.pre
        /\ FailedBefore => obs.zj.ID = obs.before

(* C25, amended: the selected job has the oldest created_at of all stored
   jobs; when the callback returns true the row whose id the job object
   then carries is deleted, which is the selected job when the callback has
   left the id alone, and nothing else changes; when it returns false the
   table stays as it was; the call that follows a failed one selects a job
   of the same created_at as the failed job, never a newer one, and the
   failed job itself when no other job shares its created_at. *)
C25_OldestUntilSuccess ==
    ProcessedZip =>
        /\ \A k \in DOMAIN obs.pre : obs.zj.CreatedAt <= obs.pre[k].CreatedAt
        /\ obs.ret => obs.post = DeleteZipJob(obs.pre, obs.id)
        /\ ~obs.ret => obs.post = obs.pre
        /\ FailedBefore =>
              /\ obs.before \in ZipIDs(obs.pre)
              /\ obs.zj.CreatedAt = ZipRow(obs.pre, obs.before).CreatedAt
              /\ OnlyOldest(obs.pre, obs.zj) => obs.zj.ID = obs.before

(* the job that failed before is selected again, ahead of a newer one *)
C25_Witness ==
    /\ FailedBefore
    /\ obs.zj.ID = obs.before
    /\ OnlyOldest(obs.pre, obs.zj)
    /\ \E k \in DOMAIN obs.pre : obs.pre[k].CreatedAt > obs.zj.CreatedAt
    /\ obs.id = obs.zj.ID
    /\ obs.ret /\ Len(obs.post) = Len(obs.pre) - 1

====
